---- MODULE Spec2Model ----
(***************************************************************************)
(* A model of the employee-management REST backend: the employee store and *)
(* the crud operations on it (src/app/crud.py), each request running in    *)
(* its own storage session, and the authentication glue of src/app/main.py *)
(* over src/app/auth.py.                                                   *)
(*                                                                         *)
(* Storage is modelled as the committed table: a statement reads the rows  *)
(* committed so far (READ COMMITTED), and db.commit() flushes the pending  *)
(* INSERT / UPDATE / DELETE and commits it in one step, the unique and     *)
(* NOT NULL constraints of src/app/models.py being checked at that step.   *)
(***************************************************************************)
EXTENDS Integers, Sequences, FiniteSets, TLC

VARIABLES
    employees,   \* the employees table: id -> row, for the ids present
    next_id,     \* the next value of the id sequence (one more than every id ever assigned)
    sess,        \* per storage session: the request it serves and where that request stands
    lst,         \* the GET /api/employees/ request being served, and its response
    users,       \* the users table: id -> row
    now,         \* the server's clock, in minutes
    issued,      \* per token: when and to whom login last issued it
    resp         \* per client: the last response it received

vars == <<employees, next_id, sess, lst, users, now, issued, resp>>

\* what the employee write requests leave alone
rest == <<lst, users, now, issued, resp>>

------------------------------------------------------------------------------
(* Bounds and input sets *)

MaxId == 2          \* ids the sequence may hand out

Sessions == {"s1", "s2"}

NoneVal == "<None>"  \* Python's None / SQL NULL

Fields == {"name", "email", "department", "role"}

Names == {"A", "B"}
Emails == {"x@e", "y@e"}
Depts == {NoneVal, "D"}
Roles == {NoneVal, "R"}

Ids == 1..MaxId

\* func.now(): what the database clock may read when a row is inserted
DbTimes == {0, 1}

\* schemas.EmployeeCreate after model_dump(): name and email required,
\* department and role optional (None when left out)
Draft(n, e, d, r) == [f \in Fields |->
    CASE f = "name" -> n [] f = "email" -> e [] f = "department" -> d [] f = "role" -> r]

EmployeeCreate ==
    {Draft(n, e, NoneVal, NoneVal) : n \in {"A"}, e \in Emails}
    \cup {Draft(n, e, "D", "R") : n \in {"B"}, e \in Emails}

\* schemas.EmployeeUpdate: every field is Optional with default None, so an
\* explicit null is accepted at the boundary; model_fields_set keeps the fields
\* the request body carried.
NoData == [f \in {} |-> NoneVal]

Body(p) == [fields_set |-> DOMAIN p,
            values |-> [f \in Fields |-> IF f \in DOMAIN p THEN p[f] ELSE NoneVal]]

EmployeeUpdate ==
    {Body(p) : p \in
        {NoData, "department" :> "D"}
        \cup {"email" :> e : e \in Emails}
        \cup {"email" :> e @@ "name" :> "B" : e \in Emails}}

------------------------------------------------------------------------------
(* The table *)

\* models.Employee(**employee.model_dump()); date_joined defaults to func.now()
Row(d, t) ==
    [name |-> d["name"], email |-> d["email"], department |-> d["department"],
     role |-> d["role"], date_joined |-> t]

NoRow == [name |-> NoneVal, email |-> NoneVal, department |-> NoneVal,
          role |-> NoneVal, date_joined |-> 0]

\* crud.get_employee: the row with this id, or None
get_employee(id) == IF id \in DOMAIN employees THEN employees[id] ELSE NoRow

Present(id) == id \in DOMAIN employees

\* The email column without unique=True
NoUniqueConstraint(id, r) == FALSE

\* models.Employee.email: unique=True.  Would row r, stored under id, break it?
UniqueViolation(id, r) ==
    \E j \in DOMAIN employees : j /= id /\ employees[j].email = r.email

\* models.Employee: name and email are nullable=False
NotNullViolation(r) == r.name = NoneVal \/ r.email = NoneVal

Max(S) == CHOOSE m \in S : \A x \in S : x <= m

\* The id of an inserted row: the sequence's next value (PostgreSQL, MySQL), or
\* one more than the largest rowid present (SQLite's INTEGER PRIMARY KEY).
NewIds ==
    {next_id} \cup (IF DOMAIN employees = {} THEN {1} ELSE {Max(DOMAIN employees) + 1})

------------------------------------------------------------------------------
(* Sessions *)

Min(S) == CHOOSE m \in S : \A x \in S : m <= x

NoOut == [status |-> 0, detail |-> ""]

Idle == [pc |-> "idle", op |-> "", id |-> 0, set |-> {}, data |-> NoData,
         dirty |-> {}, out |-> NoOut]

Out(status, detail) == [status |-> status, detail |-> detail]

\* The request ends: its response is known
Done(q, out) == [Idle EXCEPT !.pc = "done", !.op = q.op, !.out = out]

Set(s, q) == sess' = [sess EXCEPT ![s] = q]

\* creates in flight: each takes an id when it commits
InFlightCreates ==
    Cardinality({s \in Sessions : sess[s].pc \in {"create_employee", "create_checked"}})

\* Without the except IntegrityError clause the SQLAlchemyError clause answers
IntegrityErrorUncaught == Out(500, "Database error occurred")

\* except IntegrityError: rollback, 400
IntegrityErrorResponse == Out(400, "Email already exists")

\* except SQLAlchemyError: rollback, 500
SQLAlchemyErrorResponse == Out(500, "Database error occurred")

\* model_dump() without exclude_unset: the unset fields come out as None
model_dump_all(body) == [f \in Fields |-> body.values[f]]

\* crud.py line 139: employee.model_dump(exclude_unset=True)
model_dump_exclude_unset(body) == [f \in body.fields_set |-> body.values[f]]

------------------------------------------------------------------------------
(* main.py: a request arrives; get_db opens its session and the route calls crud *)

\* POST /api/employees/
create_employee(s, d) ==
    /\ sess[s].pc = "idle"
    /\ next_id + InFlightCreates <= MaxId
    /\ Set(s, [Idle EXCEPT !.pc = "create_employee", !.op = "create",
                           !.set = Fields, !.data = d])
    /\ UNCHANGED <<employees, next_id, rest>>

\* PUT /api/employees/{employee_id}
update_employee(s, id, body) ==
    /\ sess[s].pc = "idle"
    /\ Set(s, [Idle EXCEPT !.pc = "update_employee", !.op = "update", !.id = id,
                           !.set = body.fields_set,
                           !.data = model_dump_exclude_unset(body)])
    /\ UNCHANGED <<employees, next_id, rest>>

\* DELETE /api/employees/{employee_id}
delete_employee(s, id) ==
    /\ sess[s].pc = "idle"
    /\ Set(s, [Idle EXCEPT !.pc = "delete_employee", !.op = "delete", !.id = id])
    /\ UNCHANGED <<employees, next_id, rest>>

------------------------------------------------------------------------------
(* crud.create_employee *)

\* The pre-insertion query left out
EmailNeverTaken(e) == FALSE

\* lines 91-93: the pre-insertion query
EmailTaken(e) == \E j \in DOMAIN employees : employees[j].email = e

\* lines 90-99: the pre-insertion check
create_employee_check(s) ==
    /\ sess[s].pc = "create_employee"
    /\ LET q == sess[s] IN
       IF EmailTaken(q.data["email"])
       THEN Set(s, Done(q, Out(400, "Email already registered")))
       ELSE Set(s, [q EXCEPT !.pc = "create_checked"])
    /\ UNCHANGED <<employees, next_id, rest>>

\* lines 101-103 and 109-115: add and commit; an IntegrityError is rolled back
create_employee_commit(s) ==
    /\ sess[s].pc = "create_checked"
    /\ \E t \in DbTimes :
       LET q == sess[s]
           r == Row(q.data, t) IN
       IF UniqueViolation(0, r) \/ NotNullViolation(r)
       THEN /\ Set(s, Done(q, IntegrityErrorResponse))
            /\ UNCHANGED <<employees, next_id>>
       ELSE \E id \in NewIds :
              /\ employees' = [j \in DOMAIN employees \cup {id} |->
                                 IF j = id THEN r ELSE employees[j]]
              /\ next_id' = IF id >= next_id THEN id + 1 ELSE next_id
              /\ Set(s, [q EXCEPT !.pc = "create_refresh", !.id = id, !.data = NoData])
    /\ UNCHANGED rest

\* lines 104-106 and 116-122: refresh re-reads the row; a row that is gone
\* raises InvalidRequestError, a SQLAlchemyError
create_employee_refresh(s) ==
    /\ sess[s].pc = "create_refresh"
    /\ IF Present(sess[s].id)
       THEN Set(s, Done(sess[s], Out(201, "")))
       ELSE Set(s, Done(sess[s], SQLAlchemyErrorResponse))
    /\ UNCHANGED <<employees, next_id, rest>>

------------------------------------------------------------------------------
(* crud.update_employee *)

\* lines 152-153: setattr for every dumped field.  An attribute set to the value
\* it was loaded with has no net change; the unit of work flushes the others.
Dirty(data, loaded) == {f \in DOMAIN data : data[f] /= loaded[f]}

\* line 140: the pre-check queries only when the email is being changed
NeedsEmailCheck(data, loaded) ==
    "email" \in DOMAIN data /\ data["email"] /= loaded.email

\* The query without its filter Employee.id != employee_id
EmailHeldByAny(e, id) == \E j \in DOMAIN employees : employees[j].email = e

\* lines 141-144: the query for another employee with this email
EmailHeldByOther(e, id) ==
    \E j \in DOMAIN employees : employees[j].email = e /\ j /= id

\* lines 131-139: load the employee, dump the fields that were set
update_employee_load(s) ==
    /\ sess[s].pc = "update_employee"
    /\ LET q == sess[s] IN
       IF ~Present(q.id)
       THEN Set(s, Done(q, Out(404, "Employee not found")))
       ELSE LET l == get_employee(q.id) IN
            Set(s, [q EXCEPT !.dirty = Dirty(q.data, l),
                             !.pc = IF NeedsEmailCheck(q.data, l)
                                    THEN "update_loaded" ELSE "update_checked"])
    /\ UNCHANGED <<employees, next_id, rest>>

\* lines 140-150: is the new email held by another employee?
update_employee_check(s) ==
    /\ sess[s].pc = "update_loaded"
    /\ LET q == sess[s] IN
       IF EmailHeldByOther(q.data["email"], q.id)
       THEN Set(s, Done(q, Out(400, "Email already registered")))
       ELSE Set(s, [q EXCEPT !.pc = "update_checked"])
    /\ UNCHANGED <<employees, next_id, rest>>

\* Each setattr written on its own: one of the dirty columns is set
ApplyOneField(row, data, dirty) ==
    IF dirty = {} THEN row
    ELSE LET g == CHOOSE g \in dirty : TRUE
         IN  [f \in DOMAIN row |-> IF f = g THEN data[f] ELSE row[f]]

\* The UPDATE statement applied to the stored row: the dirty columns are set
Apply(row, data, dirty) ==
    [f \in DOMAIN row |-> IF f \in dirty THEN data[f] ELSE row[f]]

\* lines 155 and 161-174: commit.  No dirty attribute: nothing is written.  An
\* UPDATE that matches no row raises StaleDataError, a SQLAlchemyError.
update_employee_commit(s) ==
    /\ sess[s].pc = "update_checked"
    /\ LET q == sess[s] IN
       IF q.dirty = {}
       THEN /\ Set(s, [q EXCEPT !.pc = "update_refresh", !.data = NoData])
            /\ UNCHANGED employees
       ELSE IF ~Present(q.id)
       THEN /\ Set(s, Done(q, SQLAlchemyErrorResponse))
            /\ UNCHANGED employees
       ELSE LET r == Apply(employees[q.id], q.data, q.dirty) IN
            IF UniqueViolation(q.id, r) \/ NotNullViolation(r)
            THEN /\ Set(s, Done(q, IntegrityErrorResponse))
                 /\ UNCHANGED employees
            ELSE /\ employees' = [employees EXCEPT ![q.id] = r]
                 /\ Set(s, [q EXCEPT !.pc = "update_refresh", !.data = NoData])
    /\ UNCHANGED <<next_id, rest>>

\* lines 156-158 and 168-174
update_employee_refresh(s) ==
    /\ sess[s].pc = "update_refresh"
    /\ IF Present(sess[s].id)
       THEN Set(s, Done(sess[s], Out(200, "")))
       ELSE Set(s, Done(sess[s], SQLAlchemyErrorResponse))
    /\ UNCHANGED <<employees, next_id, rest>>

------------------------------------------------------------------------------
(* crud.delete_employee *)

\* lines 179-184
delete_employee_load(s) ==
    /\ sess[s].pc = "delete_employee"
    /\ LET q == sess[s] IN
       IF ~Present(q.id)
       THEN Set(s, Done(q, Out(404, "Employee not found")))
       ELSE Set(s, [q EXCEPT !.pc = "delete_loaded"])
    /\ UNCHANGED <<employees, next_id, rest>>

\* db.delete without db.commit: closing the session rolls the DELETE back
delete_employee_uncommitted(s) ==
    /\ sess[s].pc = "delete_loaded"
    /\ Set(s, Done(sess[s], Out(204, "")))
    /\ UNCHANGED <<employees, next_id, rest>>

\* lines 186-189: a DELETE that matches no row is only warned about
delete_employee_commit(s) ==
    /\ sess[s].pc = "delete_loaded"
    /\ employees' = [j \in DOMAIN employees \ {sess[s].id} |-> employees[j]]
    /\ Set(s, Done(sess[s], Out(204, "")))
    /\ UNCHANGED <<next_id, rest>>

------------------------------------------------------------------------------
(* Authentication: main.login, the token of app.auth, and the routes that ask
   for the current user.  Time is counted in minutes. *)

MaxTime == 31       \* the clock runs from 0 to MaxTime

\* config.Settings.access_token_expire_minutes
access_token_expire_minutes == 30

Clients == {"c1", "c2"}

\* The client of the specifications whose requests are answered one at a time
UsersClients == {"c1"}
Tokens == {"secret-token", "invalid_token"}
Usernames == {"admin", "testuser", "nonexistent"}
Passwords == {"password", "Admin123!", "Test123!"}

\* The hash of a password, which is not the password
get_password_hash(password) == <<"hash", password>>

\* The users table once the first administrator and a user have been created
InitUsers ==
    (1 :> [username |-> "testuser", email |-> "test@example.com",
           hashed_password |-> get_password_hash("Test123!"),
           is_active |-> TRUE, is_superuser |-> FALSE])
    @@
    (2 :> [username |-> "admin", email |-> "admin@example.com",
           hashed_password |-> get_password_hash("Admin123!"),
           is_active |-> TRUE, is_superuser |-> TRUE])

\* The id of the user with this username, 0 if there is none
get_user_by_username(username) ==
    IF \E i \in DOMAIN users : users[i].username = username
    THEN CHOOSE i \in DOMAIN users : users[i].username = username
    ELSE 0

\* What the login form presents, measured against the users table: recorded with
\* the response, it is not something the handler computes
Cause(username, password) ==
    LET i == get_user_by_username(username)
    IN  IF i = 0 THEN "no_such_user"
        ELSE IF users[i].hashed_password = get_password_hash(password)
             THEN "credentials_ok"
             ELSE "wrong_password"

\* Nothing issued yet under a token
NoIssue == [at |-> -1, sub |-> NoneVal, active |-> FALSE]
NoneIssued == [t \in Tokens |-> NoIssue]

\* Whether the latest issue of the token is still within its lifetime
Life(token) ==
    IF token \notin DOMAIN issued \/ issued[token].at < 0 THEN "never_issued"
    ELSE IF now <= issued[token].at + access_token_expire_minutes THEN "fresh"
    ELSE "expired"

NoResp == [op |-> "", status |-> 0, detail |-> NoneVal, headers |-> NoneVal,
           token |-> NoneVal, username |-> NoneVal, cause |-> NoneVal,
           validated |-> FALSE, life |-> NoneVal, active |-> FALSE,
           superuser |-> FALSE, params |-> << >>, reached |-> FALSE]

\* False, the result of a failed authentication
NoUser == [username |-> NoneVal]

\* auth.authenticate_user; main.login passes the session first, then the form's
\* username and password, which are the two this function looks at
authenticate_user(username, password) ==
    IF username = "admin" /\ password = "password"
    THEN [username |-> "admin"]
    ELSE NoUser

\* auth.create_access_token: the data and the lifetime do not enter the token
create_access_token(data) == "secret-token"

\* A request without an Authorization header: oauth2_scheme answers 401 itself
NoToken == NoneVal

\* auth.get_current_user: the user of a token, NoUser for credentials_exception
get_current_user(token) ==
    IF token = "secret-token" THEN [username |-> "admin"] ELSE NoUser

Denied(status) == [status |-> status, id |-> 0]
Granted(id) == [status |-> 200, id |-> id]

\* get_current_active_user: the token's user resolved to a user that is active
get_current_active_user(token) ==
    LET current_user == get_current_user(token)
        i == get_user_by_username(current_user.username)
    IN  IF current_user = NoUser \/ i = 0 THEN Denied(401)
        ELSE IF ~users[i].is_active THEN Denied(401)
        ELSE Granted(i)

\* get_current_superuser: an active user that is a superuser
get_current_superuser(token) ==
    LET p == get_current_active_user(token)
    IN  IF p.status /= 200 THEN p
        ELSE IF ~users[p.id].is_superuser THEN Denied(403)
        ELSE p

\* A route that asks for auth.get_current_user and no more
Depends_get_current_user(token) ==
    LET current_user == get_current_user(token)
        i == get_user_by_username(current_user.username)
    IN  IF current_user = NoUser \/ i = 0 THEN Denied(401) ELSE Granted(i)

\* current_user of GET /api/auth/me
get_current_user_info_Depends(token) == get_current_active_user(token)

\* current_user of GET /api/employees/{employee_id}
get_employee_Depends(token) == get_current_active_user(token)

\* A route for administrators that asks for an active user and no more
Depends_get_current_active_user(token) == get_current_active_user(token)

\* current_user of PUT /api/users/{user_id}
update_user_Depends(token) == get_current_superuser(token)

\* current_user of GET /api/users/
list_users_Depends(token) == get_current_superuser(token)

\* current_user of GET /api/users/{user_id}
get_user_Depends(token) == get_current_superuser(token)

\* A failure that tells an unknown username from a wrong password
login_failed_telling(username) ==
    IF get_user_by_username(username) = 0
    THEN [status |-> 404, detail |-> "User not found", headers |-> NoneVal]
    ELSE [status |-> 401, detail |-> "Incorrect password",
          headers |-> "WWW-Authenticate: Bearer"]

\* main.login lines 85-92: the failed attempt is logged with its username, and
\* answered
login_failed(username) ==
    [status |-> 401, detail |-> "Incorrect username or password",
     headers |-> "WWW-Authenticate: Bearer"]

\* POST /api/auth/login
login(c, username, password) ==
    LET user == authenticate_user(username, password)
        cause == Cause(username, password)
    IN  /\ IF user = NoUser
           THEN /\ resp' = [resp EXCEPT ![c] =
                       [NoResp EXCEPT !.op = "login",
                                      !.status = login_failed(username).status,
                                      !.detail = login_failed(username).detail,
                                      !.headers = login_failed(username).headers,
                                      !.username = username, !.cause = cause]]
                /\ UNCHANGED issued
           ELSE LET access_token == create_access_token(user.username)
                    i == get_user_by_username(user.username)
                IN  /\ resp' = [resp EXCEPT ![c] =
                           [NoResp EXCEPT !.op = "login", !.status = 200,
                                          !.token = access_token,
                                          !.username = username, !.cause = cause]]
                    /\ issued' = [issued EXCEPT ![access_token] =
                           [at |-> now, sub |-> user.username,
                            active |-> i /= 0 /\ users[i].is_active]]
        /\ UNCHANGED <<employees, next_id, sess, lst, users, now>>

\* What the token presented is, measured against the users table and the clock:
\* recorded with the response of a route that asks for the current user
Presented(op, token) ==
    LET current_user == get_current_user(token)
        i == get_user_by_username(current_user.username)
    IN  [NoResp EXCEPT !.op = op, !.token = token,
                       !.username = current_user.username,
                       !.validated = current_user /= NoUser,
                       !.life = Life(token),
                       !.active = i /= 0 /\ users[i].is_active,
                       !.superuser = i /= 0 /\ users[i].is_superuser]

Refused(op, token, p) == [Presented(op, token) EXCEPT !.status = p.status]

Answered(op, token, status, detail) ==
    [Presented(op, token) EXCEPT !.status = status, !.detail = detail, !.reached = TRUE]

\* GET /api/auth/me
get_current_user_info(c, token) ==
    LET p == get_current_user_info_Depends(token)
    IN  /\ resp' = [resp EXCEPT ![c] =
               IF p.status /= 200 THEN Refused("get_current_user_info", token, p)
               ELSE Answered("get_current_user_info", token, 200, users[p.id].username)]
        /\ UNCHANGED <<employees, next_id, sess, lst, users, now, issued>>

\* GET /api/employees/{employee_id}
get_employee_route(c, token, employee_id) ==
    LET p == get_employee_Depends(token)
    IN  /\ resp' = [resp EXCEPT ![c] =
               IF p.status /= 200 THEN Refused("get_employee", token, p)
               ELSE IF ~Present(employee_id)
                    THEN Answered("get_employee", token, 404, "Employee not found")
                    ELSE Answered("get_employee", token, 200, NoneVal)]
        /\ UNCHANGED <<employees, next_id, sess, lst, users, now, issued>>

\* A UserUpdate that declares is_superuser among its fields
UserUpdateWithSuperuser ==
    {NoData, "is_active" :> FALSE, "is_active" :> TRUE, "email" :> "admin@example.com",
     "is_superuser" :> TRUE}

\* schemas.UserUpdate: the fields a body sets
UserUpdate ==
    {NoData, "is_active" :> FALSE, "is_active" :> TRUE, "email" :> "admin@example.com"}

\* users.email and users.username are unique
UserUniqueViolation(id, r) ==
    \E j \in DOMAIN users :
        j /= id /\ (users[j].email = r.email \/ users[j].username = r.username)

\* crud.update_user lines 233-238: the fields that were set, the password hashed
update_data(user_update) ==
    IF "password" \in DOMAIN user_update
    THEN [f \in (DOMAIN user_update \ {"password"}) \cup {"hashed_password"} |->
             IF f = "hashed_password" THEN get_password_hash(user_update["password"])
             ELSE user_update[f]]
    ELSE user_update

\* PUT /api/users/{user_id}: crud.update_user
update_user(c, token, user_id, user_update) ==
    LET p == update_user_Depends(token)
        data == update_data(user_update)
        updated == [f \in DOMAIN users[user_id] |->
                       IF f \in DOMAIN data THEN data[f] ELSE users[user_id][f]]
    IN  /\ IF p.status /= 200
           THEN /\ resp' = [resp EXCEPT ![c] = Refused("update_user", token, p)]
                /\ UNCHANGED users
           ELSE IF user_id \notin DOMAIN users
           THEN /\ resp' = [resp EXCEPT ![c] =
                       Answered("update_user", token, 404, "User not found")]
                /\ UNCHANGED users
           ELSE IF UserUniqueViolation(user_id, updated)
           THEN /\ resp' = [resp EXCEPT ![c] =
                       [Answered("update_user", token, 500, "Database error occurred")
                           EXCEPT !.cause = "email_conflict"]]
                /\ UNCHANGED users
           ELSE /\ users' = [users EXCEPT ![user_id] = updated]
                /\ resp' = [resp EXCEPT ![c] = Answered("update_user", token, 200, NoneVal)]
        /\ UNCHANGED <<employees, next_id, sess, lst, now, issued>>

------------------------------------------------------------------------------
(* The users collection: main.register, main.list_users, main.get_user *)

MaxUsers == 3       \* rows the users table may hold

\* schemas.UserCreate: the bodies posted to /api/auth/register
UserBody(username, email, password) ==
    [username |-> username, email |-> email, password |-> password]

UserCreate ==
    {UserBody("admin", "admin@example.com", "Test123!"),
     UserBody("testuser", "test@example.com", "Test123!"),
     UserBody("testuser", "new@example.com", "Test123!"),
     UserBody("Testuser", "test@example.com", "Test123!"),
     UserBody("Testuser", "new@example.com", "Test123!"),
     UserBody("Testuser", "new@example.com", "weak")}

\* schemas.UserCreate.validate_password and min_length=8
PasswordValid(password) == password /= "weak"

\* create_user: a username or an email that is taken is a Conflict; the new user
\* is active and is no superuser
create_user(user) ==
    IF \E i \in DOMAIN users : users[i].username = user.username
    THEN [status |-> 400, detail |-> "Username already registered"]
    ELSE IF \E i \in DOMAIN users : users[i].email = user.email
    THEN [status |-> 400, detail |-> "Email already registered"]
    ELSE [status |-> 201, detail |-> NoneVal]

\* The row create_user inserts
NewUser(user) ==
    [username |-> user.username, email |-> user.email,
     hashed_password |-> get_password_hash(user.password),
     is_active |-> TRUE, is_superuser |-> FALSE]

\* The HTTPException clause left out: except Exception answers
register_Exception(e) == [status |-> 500, detail |-> "Error creating user"]

\* main.register lines 73-74: except HTTPException: raise
register_HTTPException(e) == e

\* POST /api/auth/register
register(c, user) ==
    /\ Cardinality(DOMAIN users) < MaxUsers
    /\ IF ~PasswordValid(user.password)
       THEN /\ resp' = [resp EXCEPT ![c] =
                   [NoResp EXCEPT !.op = "register", !.status = 422,
                                  !.username = user.username]]
            /\ UNCHANGED users
       ELSE LET r == create_user(user)
                id == IF DOMAIN users = {} THEN 1 ELSE Max(DOMAIN users) + 1
            IN  IF r.status /= 201
                THEN /\ resp' = [resp EXCEPT ![c] =
                            [NoResp EXCEPT !.op = "register",
                                           !.status = register_HTTPException(r).status,
                                           !.detail = register_HTTPException(r).detail,
                                           !.username = user.username,
                                           !.reached = TRUE]]
                     /\ UNCHANGED users
                ELSE /\ users' = [i \in DOMAIN users \cup {id} |->
                                     IF i = id THEN NewUser(user) ELSE users[i]]
                     /\ resp' = [resp EXCEPT ![c] =
                            [NoResp EXCEPT !.op = "register", !.status = 201,
                                           !.username = user.username,
                                           !.reached = TRUE]]
    /\ UNCHANGED <<employees, next_id, sess, lst, now, issued>>

\* list_users line 116: limit = Query(default=10, le=100); skip is any integer
UsersLimitMax == 100

\* The database's answer to a query with a negative OFFSET or LIMIT: SQLite runs
\* it, PostgreSQL refuses it
Outcomes(skip, limit) == IF skip < 0 \/ limit < 0 THEN {200, 500} ELSE {200}

\* GET /api/users/: crud.get_users
list_users(c, token, skip, limit) ==
    LET p == list_users_Depends(token)
    IN  /\ \E status \in Outcomes(skip, limit) :
              resp' = [resp EXCEPT ![c] =
                  [(IF p.status /= 200 THEN Refused("list_users", token, p)
                    ELSE IF limit > UsersLimitMax
                    THEN [Presented("list_users", token) EXCEPT !.status = 422]
                    ELSE Answered("list_users", token, status,
                                  IF status = 200 THEN NoneVal
                                  ELSE "Database error occurred"))
                   EXCEPT !.params = <<skip, limit>>]]
        /\ UNCHANGED <<employees, next_id, sess, lst, users, now, issued>>

\* GET /api/users/{user_id}: crud.get_user
get_user_route(c, token, user_id) ==
    LET p == get_user_Depends(token)
    IN  /\ resp' = [resp EXCEPT ![c] =
               IF p.status /= 200 THEN Refused("get_user", token, p)
               ELSE IF user_id \notin DOMAIN users
                    THEN Answered("get_user", token, 404, "User not found")
                    ELSE Answered("get_user", token, 200, users[user_id].username)]
        /\ UNCHANGED <<employees, next_id, sess, lst, users, now, issued>>

\* The bodies put to /api/users/{user_id} besides those of UserUpdate
UserUpdateMore ==
    {"password" :> "New123!", "email" :> "new@example.com"}

\* The users table at startup: empty after init_db, or with the users created
\* before the first request
UserTables == {[i \in {} |-> NoUser], InitUsers}

\* The instants at which the clock is read: the first minutes, those around the
\* lifetime of a token issued at 0, and every minute from there to MaxTime
Instants ==
    {0, 1} \cup ((access_token_expire_minutes - 1)..MaxTime)

\* Time passes, to the next instant
Tick ==
    /\ now < MaxTime
    /\ now' = Min({t \in Instants : t > now})
    /\ UNCHANGED <<employees, next_id, sess, lst, users, issued, resp>>

------------------------------------------------------------------------------
(* GET /api/employees/: main.list_employees over crud.get_employees and
   crud.get_employees_count *)

MaxListId == 3      \* ids of the employees a listed store may hold
MaxPage == 3        \* pages asked for: 0..MaxPage
MaxLimit == 2       \* limits asked for: 0..MaxLimit, and the cap and one past it

PageMin == 1
LimitMin == 1
LimitMax == 100

\* A query parameter left out (None); a given one is its characters
NoText == <<NoneVal>>

DepartmentFilters == {NoText, <<"d">>}
RoleFilters == {NoText, <<"R">>}
SearchFilters == {NoText, << >>, <<"a">>, <<"@", "E">>, <<"_">>}

\* The characters of a stored value
Chars(v) ==
    CASE v = "x@e" -> <<"x", "@", "e">>
      [] v = "y@e" -> <<"y", "@", "e">>
      [] v = "z@e" -> <<"z", "@", "e">>
      [] v = "w@e" -> <<"w", "@", "e">>
      [] OTHER -> <<v>>

Lower(c) ==
    CASE c = "A" -> "a" [] c = "B" -> "b" [] c = "D" -> "d" [] c = "E" -> "e"
      [] c = "R" -> "r" [] OTHER -> c

\* SQL LIKE, case-insensitive: % matches any run of characters, _ any one
RECURSIVE Like(_, _)
Like(pat, str) ==
    IF pat = << >> THEN str = << >>
    ELSE IF Head(pat) = "%"
         THEN Like(Tail(pat), str) \/ (str /= << >> /\ Like(pat, Tail(str)))
         ELSE /\ str /= << >>
              /\ Head(pat) = "_" \/ Lower(Head(pat)) = Lower(Head(str))
              /\ Like(Tail(pat), Tail(str))

\* column.ilike(f"%{text}%"); NULL is like nothing
ilike(col, text) == col /= NoneVal /\ Like(<<"%">> \o text \o <<"%">>, Chars(col))

\* if department: / if role: / if search:
Truthy(text) == text /= NoText /\ text /= << >>

\* crud.get_employees lines 36-46
ListFilter(r, department, role, search) ==
    /\ Truthy(department) => ilike(r.department, department)
    /\ Truthy(role) => ilike(r.role, role)
    /\ Truthy(search) => (ilike(r.name, search) \/ ilike(r.email, search))

\* crud.get_employees_count lines 67-77
CountFilter(r, department, role, search) ==
    /\ Truthy(department) => ilike(r.department, department)
    /\ Truthy(role) => ilike(r.role, role)
    /\ Truthy(search) => (ilike(r.name, search) \/ ilike(r.email, search))

\* order_by(models.Employee.id)
RECURSIVE OrderById(_)
OrderById(S) == IF S = {} THEN << >> ELSE <<Min(S)>> \o OrderById(S \ {Min(S)})

\* .offset(skip)
Offset(seq, skip) == SubSeq(seq, skip + 1, Len(seq))

\* .limit(limit)
Limit(seq, limit) == SubSeq(seq, 1, IF limit < Len(seq) THEN limit ELSE Len(seq))

\* crud.get_employees: the ids of the page's rows, in order
get_employees(skip, limit, department, role, search) ==
    Limit(Offset(OrderById({i \in DOMAIN employees :
                               ListFilter(employees[i], department, role, search)}),
                 skip),
          limit)

\* crud.get_employees_count
get_employees_count(department, role, search) ==
    Cardinality({i \in DOMAIN employees :
                    CountFilter(employees[i], department, role, search)})

\* skip = page * limit, the first page being page 0
SkipFromPageZero(page, limit) == page * limit

\* main.list_employees line 171
Skip(page, limit) == (page - 1) * limit

NoList == [pc |-> "idle", page |-> 0, limit |-> 0, department |-> NoText,
           role |-> NoText, search |-> NoText, employees |-> << >>, total |-> 0,
           status |-> 0]

\* lines 161-169: the query parameters are validated (page >= 1, 1 <= limit <= 100)
list_employees(page, limit, department, role, search) ==
    /\ lst.pc = "idle"
    /\ lst' = IF page >= PageMin /\ limit >= LimitMin /\ limit <= LimitMax
              THEN [NoList EXCEPT !.pc = "list_employees", !.page = page,
                                  !.limit = limit, !.department = department,
                                  !.role = role, !.search = search]
              ELSE [NoList EXCEPT !.pc = "done", !.status = 422]
    /\ UNCHANGED <<employees, next_id, sess, users, now, issued, resp>>

\* lines 171-179: the page query
list_employees_page ==
    /\ lst.pc = "list_employees"
    /\ lst' = [lst EXCEPT !.pc = "list_count",
                          !.employees = get_employees(Skip(lst.page, lst.limit), lst.limit,
                                                      lst.department, lst.role, lst.search)]
    /\ UNCHANGED <<employees, next_id, sess, users, now, issued, resp>>

\* lines 180-192: the count query, and the response
list_employees_count ==
    /\ lst.pc = "list_count"
    /\ lst' = [lst EXCEPT !.pc = "done", !.status = 200,
                          !.total = get_employees_count(lst.department, lst.role,
                                                        lst.search)]
    /\ UNCHANGED <<employees, next_id, sess, users, now, issued, resp>>

\* The email of the employee with id i in a listed store
EmailOf(i) == CASE i = 1 -> "x@e" [] i = 2 -> "y@e" [] i = 3 -> "z@e" [] OTHER -> "w@e"

\* The stores listed: any set of ids, each employee with a name and with or
\* without a department and role, the emails distinct
ListStores ==
    UNION { { [i \in S |-> [name |-> n[i], email |-> EmailOf(i), department |-> d[i],
                            role |-> IF d[i] = NoneVal THEN NoneVal ELSE "R",
                            date_joined |-> 0]] :
                n \in [S -> Names], d \in [S -> Depts] } :
            S \in SUBSET (1..MaxListId) }

------------------------------------------------------------------------------
(* The employee routes of main.py with their current_user dependency: the
   dependency is resolved before the route's body, which calls crud, runs *)

\* A route declared without a current_user dependency
Depends_nothing(token) == Granted(0)

\* current_user of POST /api/employees/
create_employee_Depends(token) == get_current_active_user(token)

\* current_user of PUT /api/employees/{employee_id}
update_employee_Depends(token) == get_current_active_user(token)

\* current_user of DELETE /api/employees/{employee_id}
delete_employee_Depends(token) == get_current_active_user(token)

\* The dependency raises: the request is answered without its route's body,
\* with the session get_db opened for it still to be closed
refused(s, op, p) ==
    /\ sess[s].pc = "idle"
    /\ Set(s, Done([Idle EXCEPT !.op = op], Out(p.status, "")))
    /\ UNCHANGED <<employees, next_id, rest>>

\* POST /api/employees/ with its Authorization header
create_employee_route(s, token, d) ==
    LET p == create_employee_Depends(token)
    IN  IF p.status = 200 THEN create_employee(s, d) ELSE refused(s, "create", p)

\* PUT /api/employees/{employee_id} with its Authorization header
update_employee_route(s, token, id, body) ==
    LET p == update_employee_Depends(token)
    IN  IF p.status = 200 THEN update_employee(s, id, body) ELSE refused(s, "update", p)

\* DELETE /api/employees/{employee_id} with its Authorization header
delete_employee_route(s, token, id) ==
    LET p == delete_employee_Depends(token)
    IN  IF p.status = 200 THEN delete_employee(s, id) ELSE refused(s, "delete", p)

------------------------------------------------------------------------------
\* db.close() after the yield, outside a finally: a request that raised leaves
\* its session open
get_db_close_unless_raised(s) ==
    /\ sess[s].pc = "done"
    /\ sess[s].out.status < 400
    /\ Set(s, Idle)
    /\ UNCHANGED <<employees, next_id, rest>>

\* main.get_db: the session is closed when the request has been answered
get_db_close(s) ==
    /\ sess[s].pc = "done"
    /\ Set(s, Idle)
    /\ UNCHANGED <<employees, next_id, rest>>

Init ==
    /\ employees = [j \in {} |-> NoRow]
    /\ next_id = 1
    /\ sess = [s \in Sessions |-> Idle]
    /\ lst = NoList
    /\ users = InitUsers
    /\ now = 0
    /\ issued = NoneIssued
    /\ resp = [c \in Clients |-> NoResp]

Next ==
    \/ \E s \in Sessions, d \in EmployeeCreate : create_employee(s, d)
    \/ \E s \in Sessions, id \in Ids, body \in EmployeeUpdate : update_employee(s, id, body)
    \/ \E s \in Sessions, id \in Ids : delete_employee(s, id)
    \/ \E s \in Sessions : create_employee_check(s)
    \/ \E s \in Sessions : create_employee_commit(s)
    \/ \E s \in Sessions : create_employee_refresh(s)
    \/ \E s \in Sessions : update_employee_load(s)
    \/ \E s \in Sessions : update_employee_check(s)
    \/ \E s \in Sessions : update_employee_commit(s)
    \/ \E s \in Sessions : update_employee_refresh(s)
    \/ \E s \in Sessions : delete_employee_load(s)
    \/ \E s \in Sessions : delete_employee_commit(s)
    \/ \E s \in Sessions : get_db_close(s)

Spec == Init /\ [][Next]_vars

InitList ==
    /\ employees \in ListStores
    /\ next_id = MaxListId + 1
    /\ sess = [s \in Sessions |-> Idle]
    /\ lst = NoList
    /\ users = InitUsers
    /\ now = 0
    /\ issued = NoneIssued
    /\ resp = [c \in Clients |-> NoResp]

NextList ==
    \/ \E page \in 0..MaxPage, limit \in (0..MaxLimit) \cup {LimitMax, LimitMax + 1},
          department \in DepartmentFilters, role \in RoleFilters, search \in SearchFilters :
          list_employees(page, limit, department, role, search)
    \/ list_employees_page
    \/ list_employees_count

SpecList == InitList /\ [][NextList]_vars

NextAuth ==
    \/ \E c \in Clients, username \in Usernames, password \in Passwords :
          login(c, username, password)
    \/ \E c \in Clients, token \in Tokens : get_current_user_info(c, token)
    \/ \E c \in Clients, token \in Tokens, employee_id \in {1} :
          get_employee_route(c, token, employee_id)
    \/ \E c \in Clients, token \in Tokens, user_id \in 1..3, user_update \in UserUpdate :
          update_user(c, token, user_id, user_update)
    \/ Tick

SpecAuth == Init /\ [][NextAuth]_vars

\* One request to an employee route at a time, each with some Authorization
\* header, while an administrator may deactivate users
GuardSessions == {"s1"}

\* The bodies posted and put by these requests
GuardCreate == {d \in EmployeeCreate : d["name"] = "A"}
GuardUpdate == {b \in EmployeeUpdate : b.fields_set \subseteq {"email"}}

NextGuard ==
    \/ \E s \in GuardSessions, token \in Tokens \cup {NoToken}, d \in GuardCreate :
          create_employee_route(s, token, d)
    \/ \E s \in GuardSessions, token \in Tokens \cup {NoToken}, id \in Ids,
          body \in GuardUpdate :
          update_employee_route(s, token, id, body)
    \/ \E s \in GuardSessions, token \in Tokens \cup {NoToken}, id \in Ids :
          delete_employee_route(s, token, id)
    \/ \E s \in GuardSessions : create_employee_check(s)
    \/ \E s \in GuardSessions : create_employee_commit(s)
    \/ \E s \in GuardSessions : create_employee_refresh(s)
    \/ \E s \in GuardSessions : update_employee_load(s)
    \/ \E s \in GuardSessions : update_employee_check(s)
    \/ \E s \in GuardSessions : update_employee_commit(s)
    \/ \E s \in GuardSessions : update_employee_refresh(s)
    \/ \E s \in GuardSessions : delete_employee_load(s)
    \/ \E s \in GuardSessions : delete_employee_commit(s)
    \/ \E s \in GuardSessions : get_db_close(s)
    \/ \E c \in UsersClients, token \in Tokens \cup {NoToken}, employee_id \in Ids :
          get_employee_route(c, token, employee_id)
    \/ \E c \in UsersClients, user_id \in DOMAIN InitUsers :
          update_user(c, "secret-token", user_id, "is_active" :> FALSE)

SpecGuard == Init /\ [][NextGuard]_vars

\* The mutating operations of both collections, the employee requests of two
\* sessions interleaved at every storage statement
AtomicUpdate == {b \in EmployeeUpdate : b.values["email"] = "y@e"}
AtomicUserUpdate == {u \in UserUpdate : u /= NoData /\ "is_active" \in DOMAIN u => ~u["is_active"]}

NextAtomic ==
    \/ \E s \in Sessions, d \in GuardCreate : create_employee(s, d)
    \/ \E s \in Sessions, id \in Ids, body \in AtomicUpdate : update_employee(s, id, body)
    \/ \E s \in Sessions, id \in Ids : delete_employee(s, id)
    \/ \E s \in Sessions : create_employee_check(s)
    \/ \E s \in Sessions : create_employee_commit(s)
    \/ \E s \in Sessions : create_employee_refresh(s)
    \/ \E s \in Sessions : update_employee_load(s)
    \/ \E s \in Sessions : update_employee_check(s)
    \/ \E s \in Sessions : update_employee_commit(s)
    \/ \E s \in Sessions : update_employee_refresh(s)
    \/ \E s \in Sessions : delete_employee_load(s)
    \/ \E s \in Sessions : delete_employee_commit(s)
    \/ \E s \in Sessions : get_db_close(s)
    \/ \E c \in UsersClients, user_update \in AtomicUserUpdate :
          update_user(c, "secret-token", 1, user_update)

SpecAtomic == Init /\ [][NextAtomic]_vars

\* The requests of two sessions, with their Authorization headers; the finally
\* clause of get_db runs whenever a request has been answered
NextSessions ==
    \/ \E s \in Sessions, token \in Tokens, d \in GuardCreate :
          create_employee_route(s, token, d)
    \/ \E s \in Sessions, token \in Tokens, id \in Ids, body \in AtomicUpdate :
          update_employee_route(s, token, id, body)
    \/ \E s \in Sessions, token \in Tokens, id \in Ids : delete_employee_route(s, token, id)
    \/ \E s \in Sessions : create_employee_check(s)
    \/ \E s \in Sessions : create_employee_commit(s)
    \/ \E s \in Sessions : create_employee_refresh(s)
    \/ \E s \in Sessions : update_employee_load(s)
    \/ \E s \in Sessions : update_employee_check(s)
    \/ \E s \in Sessions : update_employee_commit(s)
    \/ \E s \in Sessions : update_employee_refresh(s)
    \/ \E s \in Sessions : delete_employee_load(s)
    \/ \E s \in Sessions : delete_employee_commit(s)
    \/ \E s \in Sessions : get_db_close(s)

SpecSessions ==
    /\ Init
    /\ [][NextSessions]_vars
    /\ \A s \in Sessions : WF_vars(get_db_close(s))

\* A listing while the create and delete requests of another client are being
\* committed: each of its two queries reads what is committed when it runs
NextListRace ==
    \/ \E page \in 1..2, limit \in 1..2, search \in {NoText, <<"_">>} :
          list_employees(page, limit, NoText, NoText, search)
    \/ list_employees_page
    \/ list_employees_count
    \/ \E s \in GuardSessions, d \in GuardCreate : create_employee(s, d)
    \/ \E s \in GuardSessions, id \in Ids : delete_employee(s, id)
    \/ \E s \in GuardSessions : create_employee_check(s)
    \/ \E s \in GuardSessions : create_employee_commit(s)
    \/ \E s \in GuardSessions : create_employee_refresh(s)
    \/ \E s \in GuardSessions : delete_employee_load(s)
    \/ \E s \in GuardSessions : delete_employee_commit(s)
    \/ \E s \in GuardSessions : get_db_close(s)

SpecListRace == Init /\ [][NextListRace]_vars

InitUsersSpec ==
    /\ employees = [j \in {} |-> NoRow]
    /\ next_id = 1
    /\ sess = [s \in Sessions |-> Idle]
    /\ lst = NoList
    /\ users \in UserTables
    /\ now = 0
    /\ issued = NoneIssued
    /\ resp = [c \in Clients |-> NoResp]

NextUsers ==
    \/ \E c \in UsersClients, user \in UserCreate : register(c, user)
    \/ \E c \in UsersClients, password \in {"password", "Test123!"} : login(c, "admin", password)
    \/ \E c \in UsersClients, token \in Tokens \cup {NoToken}, skip \in {-1, 0},
          limit \in {-1, 0, 1, UsersLimitMax, UsersLimitMax + 1} :
          list_users(c, token, skip, limit)
    \/ \E c \in UsersClients, token \in Tokens \cup {NoToken}, user_id \in 1..MaxUsers :
          get_user_route(c, token, user_id)
    \/ \E c \in UsersClients, token \in Tokens \cup {NoToken}, user_id \in 1..MaxUsers,
          user_update \in UserUpdate \cup UserUpdateMore :
          update_user(c, token, user_id, user_update)

SpecUsers == InitUsersSpec /\ [][NextUsers]_vars

------------------------------------------------------------------------------
(* Properties of the employee store *)

\* The step is one of session s's own
Steps(s) == sess'[s] /= sess[s]

HoldersOf(e) == {j \in DOMAIN employees : employees[j].email = e}

\* C1: in every reachable state of the employee store, under any interleaving of
\* concurrent create, update and delete requests, no two distinct employee
\* records have the same email.
C1_EmailUnique ==
    \A i, j \in DOMAIN employees : i /= j => employees[i].email /= employees[j].email

\* Two employees are stored and a racing write was rejected by the constraint
C1_Witness ==
    /\ Cardinality(DOMAIN employees) = 2
    /\ \E s \in Sessions : sess[s].pc = "done" /\ sess[s].out.detail = "Email already exists"

\* C2: when concurrent create/create or create/update requests have both passed
\* the pre-insertion email check for the same email, the one that commits first
\* commits, and the other, whose write then violates the unique constraint, ends
\* with Conflict (400) and writes nothing; it never ends with the generic 500.
C2_RaceEndsInConflict ==
    [][\A s \in Sessions :
        LET q == sess[s] IN
        /\ (q.pc = "create_checked" /\ Steps(s)) =>
              IF HoldersOf(q.data["email"]) /= {}
              THEN /\ sess'[s].pc = "done"
                   /\ sess'[s].out.status = 400
                   /\ employees' = employees
              ELSE /\ sess'[s].pc = "create_refresh"
                   /\ DOMAIN employees' = DOMAIN employees \cup {sess'[s].id}
                   /\ sess'[s].id \notin DOMAIN employees
                   /\ employees'[sess'[s].id].email = q.data["email"]
        /\ (q.pc = "update_checked" /\ "email" \in q.dirty /\ q.id \in DOMAIN employees
              /\ Steps(s)) =>
              IF HoldersOf(q.data["email"]) \ {q.id} /= {}
              THEN /\ sess'[s].pc = "done"
                   /\ sess'[s].out.status = 400
                   /\ employees' = employees
              ELSE /\ sess'[s].pc = "update_refresh"
                   /\ employees'[q.id].email = q.data["email"]
      ]_vars

\* A create lost the race at commit while the other request's write is in place
C2_Witness ==
    \E s, t \in Sessions :
        /\ s /= t
        /\ sess[s].pc = "done" /\ sess[s].op = "create"
        /\ sess[s].out = [status |-> 400, detail |-> "Email already exists"]
        /\ sess[t].pc \in {"create_refresh", "update_refresh"}
        /\ sess[t].id \in DOMAIN employees

\* C3: create_employee with the email of an employee already in the store fails
\* with 400 'Email already registered' and leaves the employee records as they were.
C3_DuplicateCreateRejected ==
    [][\A s \in Sessions :
        (sess[s].pc = "create_employee" /\ Steps(s)
            /\ HoldersOf(sess[s].data["email"]) /= {}) =>
          /\ sess'[s].pc = "done"
          /\ sess'[s].out = [status |-> 400, detail |-> "Email already registered"]
          /\ employees' = employees
      ]_vars

\* A create was answered 400 'Email already registered'
C3_Witness ==
    \E s \in Sessions :
        /\ sess[s].pc = "done" /\ sess[s].op = "create"
        /\ sess[s].out = [status |-> 400, detail |-> "Email already registered"]
        /\ employees /= << >>

\* C4: update_employee fails with Conflict (400) when the partial carries an
\* email held by a different employee, and then no field of any employee is
\* changed; an update that re-submits the employee's own email is not a conflict
\* and is committed.
C4_UpdateEmailConflict ==
    [][\A s \in Sessions :
        LET q == sess[s] IN
        \* the pre-check: a conflict exactly when a different employee holds the email
        /\ (q.pc = "update_loaded" /\ Steps(s)) =>
              IF HoldersOf(q.data["email"]) \ {q.id} /= {}
              THEN /\ sess'[s].pc = "done"
                   /\ sess'[s].out = [status |-> 400, detail |-> "Email already registered"]
              ELSE sess'[s].pc = "update_checked"
        \* an update answered 400 has written nothing
        /\ (q.op = "update" /\ q.pc /= "done" /\ sess'[s].pc = "done"
              /\ sess'[s].out.status = 400) => employees' = employees
        \* the employee's own email, as loaded, is not checked against the store
        /\ (q.pc = "update_employee" /\ Steps(s) /\ q.id \in DOMAIN employees
              /\ "email" \in q.set /\ q.data["email"] = employees[q.id].email) =>
              sess'[s].pc = "update_checked"
        \* and the update is committed
        /\ (q.pc = "update_checked" /\ Steps(s) /\ q.id \in DOMAIN employees
              /\ "email" \in q.set /\ "email" \notin q.dirty) =>
              /\ sess'[s].pc = "update_refresh"
              /\ employees'[q.id].email = employees[q.id].email
      ]_vars

\* One update was refused for another employee's email; another update that
\* re-submitted the employee's own email has been committed
C4_Witness ==
    \E s, t \in Sessions :
        /\ sess[s].pc = "done" /\ sess[s].op = "update"
        /\ sess[s].out = [status |-> 400, detail |-> "Email already registered"]
        /\ sess[t].pc = "update_refresh"
        /\ "email" \in sess[t].set /\ "email" \notin sess[t].dirty
        /\ sess[t].id \in DOMAIN employees

\* C5: a successful update_employee(id, partial) changes only fields of employee
\* id that are present in partial: every omitted field keeps its prior value, id
\* and date_joined are never changed, every other record is unchanged, and each
\* field whose value differs from the loaded one takes the partial's value.
C5_PartialUpdateFrame ==
    [][\A s \in Sessions :
        LET q == sess[s] IN
        /\ (q.pc = "update_checked" /\ sess'[s].pc = "update_refresh") =>
              /\ DOMAIN employees' = DOMAIN employees
              /\ \A j \in DOMAIN employees \ {q.id} : employees'[j] = employees[j]
              /\ q.id \in DOMAIN employees =>
                    /\ \A f \in Fields \ q.set : employees'[q.id][f] = employees[q.id][f]
                    /\ employees'[q.id].date_joined = employees[q.id].date_joined
                    /\ \A f \in q.dirty : employees'[q.id][f] = q.data[f]
                    /\ \A f \in q.set \ q.dirty : employees'[q.id][f] = employees[q.id][f]
        /\ (q.op = "update" /\ Steps(s) /\ q.pc /= "update_checked") =>
              employees' = employees
      ]_vars

\* An update carrying only the department has been committed to an employee
\* whose other fields are set
C5_Witness ==
    \E s \in Sessions :
        /\ sess[s].pc = "update_refresh"
        /\ sess[s].set = {"department"} /\ sess[s].dirty = {"department"}
        /\ sess[s].id \in DOMAIN employees
        /\ employees[sess[s].id].department = "D"
        /\ employees[sess[s].id].name = "A"
        /\ Cardinality(DOMAIN employees) = 2

------------------------------------------------------------------------------
(* Properties of the employee writes as wholes *)

C17_Delete ==
    [][\A s \in Sessions :
          LET q == sess[s] IN
          /\ (Steps(s) /\ q.op = "delete" /\ sess'[s].out.status = 204) =>
                /\ q.id \notin DOMAIN employees'
                /\ DOMAIN employees' = DOMAIN employees \ {q.id}
                /\ \A j \in DOMAIN employees' : employees'[j] = employees[j]
          /\ (Steps(s) /\ q.pc = "delete_employee" /\ q.id \notin DOMAIN employees) =>
                /\ sess'[s].pc = "done"
                /\ sess'[s].out = [status |-> 404, detail |-> "Employee not found"]
                /\ employees' = employees
          /\ (Steps(s) /\ q.pc = "delete_loaded") => sess'[s].out.status = 204
      ]_vars

\* One of two employees has been deleted, and the other is in the store
C17_Witness ==
    \E s \in Sessions :
        /\ sess[s].pc = "done" /\ sess[s].op = "delete" /\ sess[s].out.status = 204
        /\ sess[s].id \notin DOMAIN employees
        /\ Cardinality(DOMAIN employees) = 1
        /\ next_id = 3

\* C16: each request has its own session, opened when the request starts, and
\* the session is closed on every exit path of the request (success, a 400, 401,
\* 403 or 404, or an unexpected error): a request that has been answered is
\* followed by the closing of its session and by nothing else, and a request
\* starts on a session no request is using.
C16_SessionClosed ==
    /\ \A s \in Sessions : (sess[s].pc = "done") ~> (sess[s] = Idle)
    /\ [][\A s \in Sessions :
            Steps(s) =>
                /\ sess[s].pc = "done" => sess'[s] = Idle
                /\ sess'[s].op /= sess[s].op => (sess[s] = Idle \/ sess'[s] = Idle)
         ]_vars

\* One request has been refused for its token and another has failed on the
\* database: the sessions of both are still to be closed
C16_Witness ==
    \E s, t \in Sessions :
        /\ sess[s].pc = "done" /\ sess[s].out.status = 401
        /\ sess[t].pc = "done" /\ sess[t].out.status = 500

------------------------------------------------------------------------------
(* Properties of the listing *)

Matching == {i \in DOMAIN employees :
                ListFilter(employees[i], lst.department, lst.role, lst.search)}

\* C6: for a fixed store and any filters, list_employees(page p >= 1, limit l in
\* 1..100) returns the employees at positions (p-1)*l+1 .. min(p*l, n) of the
\* id-ascending sequence of the n matching employees, and the reported total is n
\* on every page.
C6_PageWindow ==
    (lst.pc = "done" /\ lst.status = 200) =>
        LET n == Cardinality(Matching)
            first == (lst.page - 1) * lst.limit + 1
            last == IF lst.page * lst.limit < n THEN lst.page * lst.limit ELSE n
        IN  /\ lst.total = n
            /\ Len(lst.employees) = (IF last >= first THEN last - first + 1 ELSE 0)
            /\ \A k \in 1..Len(lst.employees) :
                  /\ lst.employees[k] \in Matching
                  /\ Cardinality({j \in Matching : j < lst.employees[k]}) = first + k - 2

\* Three employees match a search, the limit is 2: page 2 holds the third alone
C6_Witness ==
    /\ lst.pc = "done" /\ lst.status = 200
    /\ lst.page = 2 /\ lst.limit = 2
    /\ lst.search = <<"@", "E">>
    /\ DOMAIN employees = {1, 2, 3}
    /\ lst.employees = <<3>>
    /\ lst.total = 3

\* C21: when update_employee has loaded its employee and a concurrent
\* delete_employee of that employee commits before the update commits, the update
\* ends with 404 'Employee not found', never with a generic 500, and the deleted
\* employee is not re-created: it stays absent when the update has ended.
C21_UpdateOfDeletedIsNotFound ==
    [][\A s \in Sessions :
        LET q == sess[s] IN
        (/\ q.pc \in {"update_loaded", "update_checked", "update_refresh"}
         /\ Steps(s)
         /\ q.id \notin DOMAIN employees) =>
            /\ q.id \notin DOMAIN employees'
            /\ sess'[s].pc = "done" => sess'[s].out.status = 404
      ]_vars

\* C19: in every response of list_employees, also when creates and deletes of
\* other clients commit between its page query and its count query, the page
\* holds at most total employees (total being the number of matching employees
\* at one point in time during the request, the instant of the count query).
C19_PageWithinTotal ==
    (lst.pc = "done" /\ lst.status = 200) => Len(lst.employees) <= lst.total

------------------------------------------------------------------------------
(* Properties of authentication *)

ProtectedOps == {"get_current_user_info", "get_employee", "update_user"}

\* C7: a user who logs in with their own username and password is given a token
\* that resolves to that user and to no other: after logging in as testuser, the
\* current user is testuser.
C7_TokenResolvesToLoginUser ==
    \A c \in Clients :
        (resp[c].op = "login" /\ resp[c].cause = "credentials_ok") =>
            /\ resp[c].status = 200
            /\ get_current_user(resp[c].token).username = resp[c].username

\* C8: a token issued at t0 with lifetime T is accepted at every time up to and
\* including t0 + T and refused with 401 at every later time.
C8_TokenExpires ==
    \A c \in Clients :
        resp[c].op \in ProtectedOps =>
            /\ resp[c].life = "fresh" => resp[c].validated
            /\ resp[c].life = "expired" => (~resp[c].validated /\ resp[c].status = 401)

C10_InactiveRefused ==
    \A c \in Clients :
        (resp[c].op \in ProtectedOps /\ resp[c].validated /\ ~resp[c].active) =>
            (resp[c].status = 401 /\ ~resp[c].reached)

\* The token was issued while its user was active and is unexpired; the user has
\* been made inactive by update_user since, and the request is refused
C10_Witness ==
    /\ resp["c1"].op = "update_user" /\ resp["c1"].status = 200
    /\ resp["c2"].op = "get_current_user_info" /\ resp["c2"].status = 401
    /\ resp["c2"].validated /\ resp["c2"].life = "fresh" /\ ~resp["c2"].active
    /\ issued[resp["c2"].token].active
    /\ ~users[2].is_active

------------------------------------------------------------------------------
(* Properties of the users collection *)

SuperuserOps == {"list_users", "get_user", "update_user"}

\* C11: a request to a superuser-only endpoint (GET /api/users/, GET
\* /api/users/{id}, PUT /api/users/{id}) with the valid token of an active user
\* who is no superuser is answered 403, one with a missing or invalid token is
\* answered 401, and neither answer is given in the other's case.
C11_ForbiddenNotUnauthorized ==
    \A c \in Clients :
        resp[c].op \in SuperuserOps =>
            /\ (resp[c].validated /\ resp[c].active /\ ~resp[c].superuser)
                  => (resp[c].status = 403 /\ ~resp[c].reached)
            /\ ~resp[c].validated => (resp[c].status = 401 /\ ~resp[c].reached)
            /\ resp[c].status = 403
                  => (resp[c].validated /\ resp[c].active /\ ~resp[c].superuser)
            /\ resp[c].status = 401 => ~(resp[c].validated /\ resp[c].active)

\* A user who registered as admin, and so is no superuser, logs in and lists the
\* users with the token of that login
C11_Witness ==
    /\ resp["c1"].op = "list_users" /\ resp["c1"].status = 403
    /\ resp["c1"].life = "fresh" /\ resp["c1"].token = "secret-token"
    /\ resp["c1"].validated /\ resp["c1"].active /\ ~resp["c1"].superuser

------------------------------------------------------------------------------
(* Properties of the order of authorization and repository operations *)

EmployeeOps == {"get_employee"}

\* The stores a refused request leaves alone
StoresUnchanged == employees' = employees /\ next_id' = next_id /\ users' = users

\* C12: a request to a protected endpoint whose token is not that of an active
\* user is answered 401 or 403 before its route's body runs: it performs no
\* repository operation and leaves the employee and user stores unchanged, and
\* 401 and 403 are answered at no later point of a request.
C12_AuthorizedBeforeRepository ==
    [][/\ \A s \in Sessions :
            (Steps(s) /\ sess'[s].out.status \in {401, 403}) =>
                (sess[s].pc = "idle" /\ sess'[s].pc = "done" /\ StoresUnchanged)
       /\ \A s \in Sessions, token \in Tokens \cup {NoToken} :
            (/\ sess[s].pc = "idle" /\ Steps(s)
             /\ get_current_active_user(token).status /= 200
             /\ \/ \E d \in GuardCreate : create_employee_route(s, token, d)
                \/ \E id \in Ids, body \in GuardUpdate :
                      update_employee_route(s, token, id, body)
                \/ \E id \in Ids : delete_employee_route(s, token, id))
            => (/\ sess'[s].pc = "done"
                /\ sess'[s].out.status \in {401, 403}
                /\ StoresUnchanged)
       /\ \A c \in Clients :
            (resp'[c] /= resp[c] /\ resp'[c].status \in {401, 403}) =>
                (~resp'[c].reached /\ StoresUnchanged)
      ]_vars

\* A create request carrying the unexpired token of a user who has been made
\* inactive has been answered 401, with the store as it was
C12_Witness ==
    /\ sess["s1"].pc = "done" /\ sess["s1"].op = "create"
    /\ sess["s1"].out.status = 401
    /\ ~users[2].is_active
    /\ employees /= << >>

\* C13: registering a user whose username equals, case-sensitively, that of an
\* existing user, or whose email equals that of an existing user, is answered 400
\* ('Username already registered' / 'Email already registered'), creates no user
\* and leaves the existing users unchanged; any other registration creates one.
C13_RegisterDuplicate ==
    [][\A c \in UsersClients, user \in UserCreate :
          (/\ resp'[c].op = "register"
           /\ PasswordValid(user.password)
           /\ register(c, user)) =>
              LET dupU == \E i \in DOMAIN users : users[i].username = user.username
                  dupE == \E i \in DOMAIN users : users[i].email = user.email
              IN  /\ dupU => /\ resp'[c].status = 400
                             /\ resp'[c].detail = "Username already registered"
                             /\ users' = users
                  /\ (~dupU /\ dupE) => /\ resp'[c].status = 400
                                        /\ resp'[c].detail = "Email already registered"
                                        /\ users' = users
                  /\ (~dupU /\ ~dupE) =>
                         /\ resp'[c].status = 201
                         /\ Cardinality(DOMAIN users') = Cardinality(DOMAIN users) + 1
                         /\ \A i \in DOMAIN users : users'[i] = users[i]
      ]_vars

\* Testuser has registered with the email of testuser, whose username differs
\* from theirs in case only: the email is the conflict
C13_Witness ==
    /\ resp["c1"].op = "register" /\ resp["c1"].username = "Testuser"
    /\ resp["c1"].status = 400 /\ resp["c1"].detail = "Email already registered"
    /\ \E i \in DOMAIN users : users[i].username = "testuser"
    /\ ~\E i \in DOMAIN users : users[i].username = "Testuser"

\* C14: an update_user that changes the email to one already used by a different
\* user is answered 400, not 500, and leaves every user unchanged.
C14_UpdateUserEmailConflict ==
    \A c \in Clients :
        (resp[c].op = "update_user" /\ resp[c].cause = "email_conflict") =>
            resp[c].status = 400

\* C18: the list operations of both collections (GET /api/employees/ and GET
\* /api/users/) answer a limit below 1 or above 100 with a validation error and
\* pass no limit outside 1..100, and no negative offset, to the repository query.
C18_ListLimits ==
    /\ lst.pc \in {"list_count", "done"} /\ lst.status /= 422 =>
          (lst.limit \in 1..100 /\ Skip(lst.page, lst.limit) >= 0)
    /\ \A c \in Clients :
          resp[c].op = "list_users" /\ resp[c].validated /\ resp[c].active
             /\ resp[c].superuser =>
                /\ resp[c].params[2] \notin 1..100 => resp[c].status = 422
                /\ resp[c].reached =>
                      (resp[c].params[2] \in 1..100 /\ resp[c].params[1] >= 0)

\* C20: no request changes the superuser flag of a user: a registered user is
\* active and no superuser, and update_user changes only the email, the password
\* and the active flag, so the superusers are always those of startup.
C20_SuperuserFixed ==
    [][/\ \A i \in DOMAIN users :
            i \in DOMAIN users' /\ users'[i].is_superuser = users[i].is_superuser
                                /\ users'[i].username = users[i].username
       /\ \A i \in DOMAIN users' \ DOMAIN users :
            users'[i].is_active /\ ~users'[i].is_superuser
      ]_vars

\* A user has registered beside the administrator, and the administrator has
\* updated that user since
C20_Witness ==
    /\ Cardinality(DOMAIN users) = 3
    /\ resp["c1"].op = "update_user" /\ resp["c1"].status = 200
    /\ ~users[3].is_active
    /\ {i \in DOMAIN users : users[i].is_superuser} = {2}

====
